---- MODULE Spec2Model ----
(***************************************************************************)
(* Email Behavior Orchestrator: the review dashboard (app.py), its         *)
(* decision ledger and rule table, and the remote-classifier pipeline      *)
(* (gemini_classifier.py), with the resolvers of analyze_predictions.py    *)
(* and ai_model.py.                                                        *)
(*                                                                         *)
(*   Spec         one review session; every action is one whole script run *)
(*   SpecConc     several sessions; a decision run split at its file I/O   *)
(*   SpecResolve  the resolvers of the suggested action, on bounded inputs *)
(*   SpecExtract  gemini_classify on bounded raw responses                 *)
(*   SpecPipeline run_pipeline over the input threads                      *)
(*   SpecClean    clean_text of ai_model.py on bounded texts               *)
(*   SpecCluster  the script ai_model.py over a bounded corpus             *)
(***************************************************************************)
EXTENDS Integers, Sequences, FiniteSets, TLC

VARIABLES
    ledgerFile,     \* logs/decisions_log.json: [data: entries, torn: not parseable]
    rulesFile,      \* rules.json: behavior -> action
    modelFile,      \* whether behavior_model.joblib exists
    rule_input,     \* the text inputs of the rule editor, per session
    gmailCalls,     \* mailbox calls the latest script run issued: set of [op, id, to]
    clock,          \* logical time of datetime.now(): decision clicks so far
    emails,         \* st.session_state.emails, per session
    drafted_reply,  \* st.session_state.drafted_reply, per session
    active_tab,     \* st.session_state.active_tab, per session
    raised,         \* the uncaught exception of the session's latest script run
    writeResult,    \* what the ledger write of the latest script run did
    pc,             \* SpecConc: where the session's decision run stands
    log,            \* SpecConc: the run's in-memory `log` list
    pend,           \* SpecConc: the click the run is handling
    resolved,       \* SpecResolve: the latest resolution of a suggested action
    extraction,     \* SpecExtract: a raw remote response and the label taken from it
    pipe,           \* SpecPipeline: the run of run_pipeline
    norm,           \* SpecClean: a text and what clean_text makes of it, pass by pass
    kmeans          \* SpecCluster: the run of the script ai_model.py

vars == <<ledgerFile, rulesFile, modelFile, rule_input, gmailCalls, clock, emails, drafted_reply,
          active_tab, raised, writeResult, pc, log, pend, resolved, extraction, pipe,
          norm, kmeans>>

sessionVars == <<emails, drafted_reply, active_tab, raised, writeResult>>
batchVars == <<resolved, extraction, pipe, norm, kmeans>>
runVars == <<pc, log, pend, batchVars>>
appVars == <<ledgerFile, rulesFile, modelFile, rule_input, gmailCalls, clock, sessionVars, pc, log, pend>>

----------------------------------------------------------------------------
(* Bounds *)

NumSessions == 2
MaxDecisions == 2
MaxThreads == 3
MaxFragments == 3
MaxLatency == 1

Sessions == 1..NumSessions
\* the session of Spec: the first one
Reviewer == CHOOSE s \in Sessions : \A t \in Sessions : s <= t

----------------------------------------------------------------------------
(* Constants of the program *)

REVIEW_MANUALLY == "Review Manually"

default_rules ==
    [b \in {"Confirmation", "Objection", "New Information", "Question", "Other"} |->
        CASE b = "Confirmation" -> "Close Ticket"
          [] b = "Objection" -> "Escalate to Manager"
          [] b = "New Information" -> "Request Additional Information"
          [] b = "Question" -> "Assign to Agent"
          [] OTHER -> "No Action"]

ImmediateActions == {"Close Ticket", "Assign to Agent", "No Action"}
EmailActions == {"Escalate to Manager", "Request Additional Information"}
action_map == ImmediateActions \cup EmailActions

MANAGER == "kj@kgrp.in"

\* the text typed into a rule's input before Save Rules, and the rule edited
RuleInputs == {"Close Ticket", ""}
EditedBehaviors == {"Confirmation"}
DefaultConfidence == 85
QUOTA_DELAY == 15

Tabs == {"Dashboard", "Inbox", "Analytics"}

\* d[key] where a missing key yields None
DictGetNoDefault(d, k, default) == IF k \in DOMAIN d THEN d[k] ELSE "None"

\* dict.get(key, default)
DictGet(d, k, default) == IF k \in DOMAIN d THEN d[k] ELSE default

Range(f) == {f[x] : x \in DOMAIN f}

----------------------------------------------------------------------------
(* The mailbox: unread messages of the INBOX, and the trained model *)

Inbox ==
    << [id |-> "m1", threadId |-> "T1", from |-> "ann@x.org", body |-> "confirm"],
       [id |-> "m2", threadId |-> "T2", from |-> "bob@x.org", body |-> "object"],
       [id |-> "m3", threadId |-> "T3", from |-> "cy@x.org", body |-> "escalate"] >>

\* what the mailbox lists as unread when asked
UnreadLists == {<<>>, Inbox}

\* model.predict([body])[0]: the artifact is deterministic in the body
ModelPredict(body) ==
    CASE body = "confirm" -> "Confirmation"
      [] body = "object" -> "Objection"
      [] OTHER -> "Escalation"

EmailOf(msg) ==
    [id |-> msg.id, thread_id |-> msg.threadId, from |-> msg.from,
     predicted_behavior |-> ModelPredict(msg.body)]

\* the loop of fetch_and_process_emails over the unread messages: a message is
\* kept `if email_data and model`, and skipped otherwise
new_emails(unread_messages, model) ==
    IF model THEN [i \in DOMAIN unread_messages |-> EmailOf(unread_messages[i])]
    ELSE <<>>

\* get_email_content(service, msg["id"]) for every unread message
FetchCalls(unread_messages) ==
    {[op |-> "get", id |-> unread_messages[i].id, to |-> "none"] :
        i \in DOMAIN unread_messages}

----------------------------------------------------------------------------
(* Decision ledger *)

EmptyLedger == [data |-> <<>>, torn |-> FALSE]

NoDraft == [recipient |-> "none", template |-> "none", original_email_id |-> "none"]

Entry(thread_id, ai_suggestion, final_action, decision_status, user_id, timestamp) ==
    [thread_id |-> thread_id, ai_suggestion |-> ai_suggestion,
     final_action |-> final_action, decision_status |-> decision_status,
     user_id |-> user_id, timestamp |-> timestamp,
     ai_confidence |-> DefaultConfidence]

\* the selected thread with its suggested action resolved from the rules
Thread(p, rules) ==
    [id |-> p.id, thread_id |-> p.thread_id, from |-> p.from,
     predicted_behavior |-> p.predicted_behavior,
     suggested_action |-> DictGet(rules, p.predicted_behavior, REVIEW_MANUALLY)]

ApproveEntry(thread, user, now) ==
    Entry(thread.thread_id, thread.suggested_action, thread.suggested_action,
          "Approved", user, now)

OverrideEntry(thread, override, user, now) ==
    Entry(thread.thread_id, thread.suggested_action, override,
          "Overridden", user, now)

override_options(rules) == Range(rules) \cup {"No Action"}

\* open(DATA_FILE, "w") then json.dump(log, f): the outcomes of the write
WriteOutcomes == {"ok", "open_failed", "torn"}

Prefixes(seq) == {SubSeq(seq, 1, k) : k \in 0..(Len(seq) - 1)}

\* the file contents a write of newlog can leave, by outcome
FileAfterWrite(old, newlog, outcome) ==
    CASE outcome = "ok" -> {[data |-> newlog, torn |-> FALSE]}
      [] outcome = "open_failed" -> {old}
      [] OTHER -> {[data |-> p, torn |-> TRUE] : p \in Prefixes(newlog)}

----------------------------------------------------------------------------
(* Mailbox actions of a decision *)

\* action_map[action](service, thread): the mailbox calls it issues
ActionCalls(action, thread) ==
    CASE action = "Close Ticket" -> {[op |-> "archive", id |-> thread.id, to |-> "none"]}
      [] action = "Assign to Agent" -> {[op |-> "label", id |-> thread.id, to |-> "none"]}
      [] OTHER -> {}

\* create_draft through action_map
ActionDraft(action, thread) ==
    CASE action = "Escalate to Manager" ->
            [recipient |-> MANAGER, template |-> "Escalated",
             original_email_id |-> thread.id]
      [] action = "Request Additional Information" ->
            [recipient |-> thread.from, template |-> "Re",
             original_email_id |-> thread.id]
      [] OTHER -> NoDraft

----------------------------------------------------------------------------
(* The review session: one action is one script run of run_orchestrator_app *)

AppStart ==
    /\ ledgerFile = EmptyLedger
    /\ rulesFile = default_rules
    /\ modelFile \in BOOLEAN
    /\ rule_input = [s \in Sessions |-> [b \in EditedBehaviors |-> default_rules[b]]]
    /\ gmailCalls = {}
    /\ clock = 0
    /\ emails = [s \in Sessions |-> <<>>]
    /\ drafted_reply = [s \in Sessions |-> NoDraft]
    /\ active_tab = [s \in Sessions |-> "Dashboard"]
    /\ raised = [s \in Sessions |-> "none"]
    /\ writeResult = [s \in Sessions |-> "none"]
    /\ pc = [s \in Sessions |-> "idle"]
    /\ log = [s \in Sessions |-> <<>>]
    /\ pend = [s \in Sessions |-> <<>>]

NoResolution == [site |-> "none", label |-> "none", table |-> <<>>, action |-> "none"]
NoExtraction == [response |-> [kind |-> "none", text |-> <<>>], label |-> "none"]
NoPipeline == [pc |-> "off", email_text |-> <<>>, labels |-> <<>>, errored |-> {},
               predictions |-> <<>>, now |-> 0, calls |-> <<>>]

NoNormalisation == [text |-> <<>>, passes |-> <<>>]
NoClustering == [pc |-> "off", threads |-> <<>>, email_text |-> <<>>, clean_text |-> <<>>,
                 cluster |-> <<>>, predictions |-> <<>>]

\* no batch script is running
BatchIdle ==
    /\ norm = NoNormalisation
    /\ kmeans = NoClustering

BatchOff ==
    /\ resolved = NoResolution
    /\ extraction = NoExtraction
    /\ pipe = NoPipeline
    /\ BatchIdle

Init == AppStart /\ BatchOff

username(s) == s

\* load_data: json.load of the ledger file raises on a file that is not JSON
load_data_ok == ~ledgerFile.torn

\* a run that gets through without an exception and writes no ledger
QuietRun(s) ==
    /\ raised' = [raised EXCEPT ![s] = "none"]
    /\ writeResult' = [writeResult EXCEPT ![s] = "none"]

\* the script run dies in load_data on an unparseable ledger file
RunCrashes(s) ==
    /\ pc[s] = "idle"
    /\ ~load_data_ok
    /\ raised' = [raised EXCEPT ![s] = "JSONDecodeError"]
    /\ writeResult' = [writeResult EXCEPT ![s] = "none"]
    /\ gmailCalls' = {}
    /\ UNCHANGED <<ledgerFile, rulesFile, modelFile, rule_input, clock, emails,
                   drafted_reply, active_tab, runVars>>

\* "Fetch New Emails": fetch_and_process_emails(model), then st.rerun()
FetchNewEmails(s) ==
    /\ pc[s] = "idle"
    /\ load_data_ok
    /\ \E service \in BOOLEAN, unread_messages \in UnreadLists :
          IF ~service \/ unread_messages = <<>>
          THEN gmailCalls' = {} /\ UNCHANGED emails
          ELSE /\ gmailCalls' = FetchCalls(unread_messages)
               /\ emails' = [emails EXCEPT ![s] =
                                new_emails(unread_messages, modelFile)]
    /\ QuietRun(s)
    /\ UNCHANGED <<ledgerFile, rulesFile, modelFile, rule_input, clock, drafted_reply, active_tab, runVars>>

\* a rule's text input is edited: the widget keeps the text, the script reruns
EditRule(s) ==
    /\ pc[s] = "idle"
    /\ load_data_ok
    /\ \E b \in EditedBehaviors \cap DOMAIN rulesFile, a \in RuleInputs :
          /\ a # rule_input[s][b]
          /\ rule_input' = [rule_input EXCEPT ![s][b] = a]
    /\ QuietRun(s)
    /\ gmailCalls' = {}
    /\ UNCHANGED <<ledgerFile, rulesFile, modelFile, clock, emails, drafted_reply,
                   active_tab, runVars>>

\* lines 191-193: the table the rule editor holds, one text input per rule
new_rules(s, rules) ==
    [b \in DOMAIN rules |-> IF b \in EditedBehaviors THEN rule_input[s][b] ELSE rules[b]]

\* "Save Rules": the text inputs are written over rules.json
SaveRules(s) ==
    /\ pc[s] = "idle"
    /\ load_data_ok
    /\ rulesFile' = new_rules(s, rulesFile)
    /\ QuietRun(s)
    /\ gmailCalls' = {}
    /\ UNCHANGED <<ledgerFile, modelFile, rule_input, clock, emails, drafted_reply,
                   active_tab, runVars>>

\* the navigation radio
Navigate(s) ==
    /\ pc[s] = "idle"
    /\ load_data_ok
    /\ \E tab \in Tabs : active_tab' = [active_tab EXCEPT ![s] = tab]
    /\ QuietRun(s)
    /\ gmailCalls' = {}
    /\ UNCHANGED <<ledgerFile, rulesFile, modelFile, rule_input, clock, emails, drafted_reply, runVars>>

\* the inbox resolving its suggestions from the text inputs, saved or not
SelectableFromInputs(s) ==
    {Thread(emails[s][i], new_rules(s, rulesFile)) : i \in DOMAIN emails[s]}

\* the threads the inbox table offers for selection
Selectable(s) == {Thread(emails[s][i], rulesFile) : i \in DOMAIN emails[s]}

\* the row selected when the reviewer has clicked none: row 0 (line 296)
DefaultSelection(s) == Thread(emails[s][1], rulesFile)

\* lines 278-284: the rows of the inbox table, in the default order
InboxTable(s) ==
    [i \in DOMAIN emails[s] |->
        [thread_id |-> emails[s][i].thread_id,
         predicted_behavior |-> emails[s][i].predicted_behavior,
         suggested_action |->
             DictGet(rulesFile, emails[s][i].predicted_behavior, REVIEW_MANUALLY),
         decision_status |-> "Pending"]]

\* a decision that leaves the previous draft where nothing new is drafted
PerformActionKeepsDraft(s, thread, action_to_perform, service) ==
    IF action_to_perform = "" THEN gmailCalls' = {} /\ UNCHANGED drafted_reply
    ELSE IF service /\ action_to_perform \in action_map
         THEN /\ gmailCalls' = ActionCalls(action_to_perform, thread)
              /\ drafted_reply' =
                    IF ActionDraft(action_to_perform, thread) = NoDraft THEN drafted_reply
                    ELSE [drafted_reply EXCEPT ![s] =
                             ActionDraft(action_to_perform, thread)]
         ELSE /\ gmailCalls' = {}
              /\ UNCHANGED drafted_reply

\* lines 355-374: the mailbox action of a logged decision
PerformAction(s, thread, action_to_perform, service) ==
    IF action_to_perform = "" THEN gmailCalls' = {} /\ UNCHANGED drafted_reply
    ELSE IF service /\ action_to_perform \in action_map
         THEN /\ gmailCalls' = ActionCalls(action_to_perform, thread)
              /\ drafted_reply' = [drafted_reply EXCEPT ![s] =
                                      ActionDraft(action_to_perform, thread)]
         ELSE /\ gmailCalls' = {}
              /\ drafted_reply' = [drafted_reply EXCEPT ![s] = NoDraft]

\* a run that swallows the exception of the write and carries on
AfterWriteSwallowed(s, thread, action_to_perform, outcome, service) ==
    /\ raised' = [raised EXCEPT ![s] = IF outcome = "ok" THEN "none" ELSE "OSError"]
    /\ PerformAction(s, thread, action_to_perform, service)

\* what follows the write of the ledger in a decision run
AfterWrite(s, thread, action_to_perform, outcome, service) ==
    IF outcome = "ok"
    THEN /\ raised' = [raised EXCEPT ![s] = "none"]
         /\ PerformAction(s, thread, action_to_perform, service)
    ELSE /\ raised' = [raised EXCEPT ![s] = "OSError"]
         /\ gmailCalls' = {}
         /\ UNCHANGED drafted_reply

\* a decision click: append the entry, rewrite the ledger, act, st.rerun()
Decide(s, thread, entry, outcome, service) ==
    /\ ledgerFile' \in FileAfterWrite(ledgerFile, Append(ledgerFile.data, entry), outcome)
    /\ writeResult' = [writeResult EXCEPT ![s] = outcome]
    /\ clock' = clock + 1
    /\ AfterWrite(s, thread, entry.final_action, outcome, service)
    /\ UNCHANGED <<rulesFile, modelFile, rule_input, emails, active_tab, runVars>>

\* "Approve Suggested Action"
Approve(s) ==
    /\ pc[s] = "idle"
    /\ load_data_ok
    /\ active_tab[s] = "Inbox"
    /\ clock < MaxDecisions
    /\ \E thread \in Selectable(s), outcome \in WriteOutcomes, service \in BOOLEAN :
          Decide(s, thread, ApproveEntry(thread, username(s), clock + 1), outcome, service)

\* "Save Override"
SaveOverride(s) ==
    /\ pc[s] = "idle"
    /\ load_data_ok
    /\ active_tab[s] = "Inbox"
    /\ clock < MaxDecisions
    /\ \E thread \in Selectable(s), override \in override_options(rulesFile),
          outcome \in WriteOutcomes, service \in BOOLEAN :
          Decide(s, thread, OverrideEntry(thread, override, username(s), clock + 1),
                 outcome, service)

\* "Send Reply" on the draft of the selected thread
SendReply(s) ==
    /\ pc[s] = "idle"
    /\ load_data_ok
    /\ active_tab[s] = "Inbox"
    /\ \E thread \in Selectable(s), service \in BOOLEAN :
          /\ drafted_reply[s] # NoDraft
          /\ drafted_reply[s].original_email_id = thread.id
          /\ IF service
             THEN /\ gmailCalls' =
                        {[op |-> "send", id |-> drafted_reply[s].original_email_id,
                          to |-> drafted_reply[s].recipient]}
                  /\ drafted_reply' = [drafted_reply EXCEPT ![s] = NoDraft]
             ELSE gmailCalls' = {} /\ UNCHANGED drafted_reply
    /\ QuietRun(s)
    /\ UNCHANGED <<ledgerFile, rulesFile, modelFile, rule_input, clock, emails, active_tab, runVars>>

Next ==
    \/ FetchNewEmails(Reviewer)
    \/ EditRule(Reviewer)
    \/ SaveRules(Reviewer)
    \/ Navigate(Reviewer)
    \/ Approve(Reviewer)
    \/ SaveOverride(Reviewer)
    \/ SendReply(Reviewer)
    \/ RunCrashes(Reviewer)

Spec == Init /\ [][Next]_vars

----------------------------------------------------------------------------
(* Accuracy metric of the Dashboard and of the Analytics screen *)

Abs(x) == IF x < 0 THEN -x ELSE x

\* f"{x:.1f}" of x = num/den * 100, in tenths of a percent: the nearest
\* tenth, a tie going to the even one
FormatTenths(num, den) ==
    LET q == (num * 1000) \div den
        r == (num * 1000) % den
    IN IF 2 * r > den \/ (2 * r = den /\ q % 2 = 1) THEN q + 1 ELSE q

Percent(tenths) == [kind |-> "percent", tenths |-> tenths]
NA == [kind |-> "N/A", tenths |-> 0]
NotShown == [kind |-> "none", tenths |-> 0]

Overridden(entries) ==
    Cardinality({i \in DOMAIN entries : entries[i].decision_status = "Overridden"})

\* Quick Stats, lines 229-237
DashboardAccuracy(entries) ==
    LET decisions_made == Len(entries)
    IN IF decisions_made > 0
       THEN Percent(FormatTenths(decisions_made - Overridden(entries), decisions_made))
       ELSE NA

\* Analytics without its "no decision history" guard
AnalyticsAccuracyUnguarded(entries) ==
    LET total_decisions == Len(entries)
    IN IF total_decisions > 0
       THEN Percent(FormatTenths(total_decisions - Overridden(entries), total_decisions))
       ELSE Percent(1000)

\* Key Metrics, lines 413-432
AnalyticsAccuracy(entries) ==
    IF entries = <<>> THEN NotShown
    ELSE LET total_decisions == Len(entries)
         IN IF total_decisions > 0
            THEN Percent(FormatTenths(total_decisions - Overridden(entries),
                                      total_decisions))
            ELSE Percent(1000)

\* the accuracy metric a tab shows for a loaded ledger
AccuracyOn(tab, entries) ==
    CASE tab = "Dashboard" -> DashboardAccuracy(entries)
      [] tab = "Analytics" -> AnalyticsAccuracy(entries)
      [] OTHER -> NotShown

\* what the session's screen shows as accuracy
ShownAccuracy(s) ==
    IF load_data_ok THEN AccuracyOn(active_tab[s], ledgerFile.data) ELSE NotShown

----------------------------------------------------------------------------
(* Concurrent sessions: the decision run of a session, split where it      *)
(* reads and writes the ledger file (lines 125-126, 339-340, 355-374)      *)

\* the click a run handles: the selected thread and the entry it will log
Click(thread, entry) == [thread |-> thread, entry |-> entry]

\* load_data at the start of the run the click triggers
LoadLedger(s) ==
    /\ pc[s] = "idle"
    /\ load_data_ok
    /\ active_tab[s] = "Inbox"
    /\ emails[s] # <<>>
    /\ clock < MaxDecisions
    /\ log' = [log EXCEPT ![s] = ledgerFile.data]
    /\ pc' = [pc EXCEPT ![s] = "loaded"]
    /\ UNCHANGED <<ledgerFile, rulesFile, modelFile, rule_input, gmailCalls, clock, sessionVars, pend, batchVars>>

\* log.append(entry) and open(DATA_FILE, "w"), which empties the file
OpenLedger(s) ==
    /\ pc[s] = "loaded"
    /\ \E thread \in {DefaultSelection(s)}, approve \in BOOLEAN,
          override \in override_options(rulesFile) :
          LET entry == IF approve
                       THEN ApproveEntry(thread, username(s), clock + 1)
                       ELSE OverrideEntry(thread, override, username(s), clock + 1)
          IN /\ log' = [log EXCEPT ![s] = Append(@, entry)]
             /\ pend' = [pend EXCEPT ![s] = <<Click(thread, entry)>>]
    /\ clock' = clock + 1
    /\ ledgerFile' = [data |-> <<>>, torn |-> TRUE]
    /\ pc' = [pc EXCEPT ![s] = "opened"]
    /\ UNCHANGED <<rulesFile, modelFile, rule_input, gmailCalls, sessionVars, batchVars>>

\* The bytes a dump leaves when written from offset 0 over what another
\* writer has put into the file since this run opened it: a longer text stays
\* behind the shorter one, and entry counts cannot tell equal lengths apart.
FileAfterDump(old, newlog) ==
    IF old.data = <<>> \/ Len(old.data) < Len(newlog)
    THEN {[data |-> newlog, torn |-> FALSE]}
    ELSE IF Len(old.data) > Len(newlog)
         THEN {[data |-> newlog, torn |-> TRUE]}
         ELSE {[data |-> newlog, torn |-> t] : t \in BOOLEAN}

\* json.dump(log, f) and the close of the file
DumpLedger(s) ==
    /\ pc[s] = "opened"
    /\ ledgerFile' \in FileAfterDump(ledgerFile, log[s])
    /\ pc' = [pc EXCEPT ![s] = "written"]
    /\ UNCHANGED <<rulesFile, modelFile, rule_input, gmailCalls, clock, sessionVars, log, pend, batchVars>>

\* lines 355-374 and st.rerun(), which ends the run and its local `log`
FinishDecision(s) ==
    /\ pc[s] = "written"
    /\ \E service \in BOOLEAN :
          PerformAction(s, pend[s][1].thread, pend[s][1].entry.final_action, service)
    /\ raised' = [raised EXCEPT ![s] = "none"]
    /\ writeResult' = [writeResult EXCEPT ![s] = "ok"]
    /\ pc' = [pc EXCEPT ![s] = "idle"]
    /\ log' = [log EXCEPT ![s] = <<>>]
    /\ UNCHANGED <<ledgerFile, rulesFile, modelFile, rule_input, clock, emails, active_tab, pend, batchVars>>

\* every session has logged in, fetched the unread mail and opened the inbox
InitConc ==
    /\ ledgerFile = EmptyLedger
    /\ rulesFile = default_rules
    /\ modelFile = TRUE
    /\ rule_input = [s \in Sessions |-> [b \in EditedBehaviors |-> default_rules[b]]]
    /\ gmailCalls = {}
    /\ clock = 0
    /\ emails = [s \in Sessions |-> new_emails(Inbox, modelFile)]
    /\ drafted_reply = [s \in Sessions |-> NoDraft]
    /\ active_tab = [s \in Sessions |-> "Inbox"]
    /\ raised = [s \in Sessions |-> "none"]
    /\ writeResult = [s \in Sessions |-> "none"]
    /\ pc = [s \in Sessions |-> "idle"]
    /\ log = [s \in Sessions |-> <<>>]
    /\ pend = [s \in Sessions |-> <<>>]
    /\ BatchOff

NextConc ==
    \E s \in Sessions :
        \/ RunCrashes(s)
        \/ LoadLedger(s)
        \/ OpenLedger(s)
        \/ DumpLedger(s)
        \/ FinishDecision(s)

SpecConc == InitConc /\ [][NextConc]_vars

----------------------------------------------------------------------------
(* Text of a remote response, character by character *)

UpperCase == <<"A", "B", "C", "D", "E", "F", "G", "H", "I", "J", "K", "L", "M",
               "N", "O", "P", "Q", "R", "S", "T", "U", "V", "W", "X", "Y", "Z">>
LowerCase == <<"a", "b", "c", "d", "e", "f", "g", "h", "i", "j", "k", "l", "m",
               "n", "o", "p", "q", "r", "s", "t", "u", "v", "w", "x", "y", "z">>
Digits == {"0", "1", "2", "3", "4", "5", "6", "7", "8", "9"}
Whitespace == {" ", "\n", "\t"}

\* str.lower(), one character
LowerChar(c) ==
    IF \E i \in DOMAIN UpperCase : UpperCase[i] = c
    THEN LowerCase[CHOOSE i \in DOMAIN UpperCase : UpperCase[i] = c]
    ELSE c

\* str.lower()
lower(text) == [i \in DOMAIN text |-> LowerChar(text[i])]

\* \w of the regular expression
IsWordChar(c) == c \in Range(UpperCase) \cup Range(LowerCase) \cup Digits \cup {"_"}

RECURSIVE lstrip(_)
lstrip(text) ==
    IF text # <<>> /\ Head(text) \in Whitespace THEN lstrip(Tail(text)) ELSE text

RECURSIVE rstrip(_)
rstrip(text) ==
    IF text # <<>> /\ text[Len(text)] \in Whitespace
    THEN rstrip(SubSeq(text, 1, Len(text) - 1))
    ELSE text

\* str.strip()
strip(text) == rstrip(lstrip(text))

\* \b between text[i] and text[i + 1]
WordBoundary(text, i) ==
    (i >= 1 /\ IsWordChar(text[i])) # (i < Len(text) /\ IsWordChar(text[i + 1]))

\* re.search(rf"\b{pattern}\b", text) finds a match
re_search_word(pattern, text) ==
    \E i \in 0..(Len(text) - Len(pattern)) :
        /\ SubSeq(text, i + 1, i + Len(pattern)) = pattern
        /\ WordBoundary(text, i)
        /\ WordBoundary(text, i + Len(pattern))

----------------------------------------------------------------------------
(* gemini_classifier.py *)

CATEGORIES == <<"Confirmation", "Objection", "Escalation", "New Information", "Unknown">>

\* the characters of a category name
Chars(cat) ==
    CASE cat = "Confirmation" -> <<"C", "o", "n", "f", "i", "r", "m", "a", "t", "i", "o", "n">>
      [] cat = "Objection" -> <<"O", "b", "j", "e", "c", "t", "i", "o", "n">>
      [] cat = "Escalation" -> <<"E", "s", "c", "a", "l", "a", "t", "i", "o", "n">>
      [] cat = "New Information" -> <<"N", "e", "w", " ", "I", "n", "f", "o", "r", "m", "a", "t", "i", "o", "n">>
      [] OTHER -> <<"U", "n", "k", "n", "o", "w", "n">>

BEHAVIOR_TO_ACTION ==
    [b \in {"Confirmation", "Objection", "Escalation", "New Information", "Unknown"} |->
        CASE b = "Confirmation" -> "Close Ticket"
          [] b = "Objection" -> "Request Clarification"
          [] b = "Escalation" -> "Forward to Manager"
          [] b = "New Information" -> "Update Records"
          [] OTHER -> "Review Manually"]

\* what model.generate_content hands back: a response with text, a response
\* that is None or has no text, or an exception
TextResponse(text) == [kind |-> "text", text |-> text]
NoneResponse == [kind |-> "None", text |-> <<>>]
RaisedResponse == [kind |-> "raise", text |-> <<>>]

\* line 54: response.text.strip() if response and hasattr(response, "text") else "Unknown"
response_text(response) ==
    IF response.kind = "text" THEN strip(response.text) ELSE Chars("Unknown")

\* the loop of lines 61-65 taken through the categories in reverse
LastMatch(text) ==
    LET hits == {k \in DOMAIN CATEGORIES :
                    re_search_word(lower(Chars(CATEGORIES[k])), lower(text))}
    IN IF hits = {} THEN "Unknown"
       ELSE CATEGORIES[CHOOSE k \in hits : \A j \in hits : j <= k]

\* lines 61-65: the first category, in the order of CATEGORIES, whose name is
\* found in the text as a whole word, or "Unknown"
FirstMatch(text) ==
    LET hits == {k \in DOMAIN CATEGORIES :
                    re_search_word(lower(Chars(CATEGORIES[k])), lower(text))}
    IN IF hits = {} THEN "Unknown"
       ELSE CATEGORIES[CHOOSE k \in hits : \A j \in hits : k <= j]

\* gemini_classify, given what the remote call returned
gemini_classify(response) == FirstMatch(response_text(response))

\* pandas Series.map(dict): a value that is no key maps to NaN
NaN == "NaN"
SeriesMap(table, value) == IF value \in DOMAIN table THEN table[value] ELSE NaN

----------------------------------------------------------------------------
(* Label extraction on bounded responses *)

Fragments ==
    { <<"E", "s", "c", "a", "L", "a", "t", "i", "o", "n">>, <<"O", "b", "j", "e", "c", "t", "i", "o", "n">>, <<"c", "o", "n", "f", "i", "r", "m", "a", "t", "i", "o", "n">>,
      <<"N", "e", "w">>, <<"i", "n", "f", "o", "r", "m", "a", "t", "i", "o", "n">>, <<"u", "n", "k", "n", "o", "w", "n">>,
      <<" ">>, <<"s">>, <<"_">>, <<".">> }

RECURSIVE Concat(_)
Concat(parts) == IF parts = <<>> THEN <<>> ELSE Head(parts) \o Concat(Tail(parts))

\* the raw texts: up to MaxFragments fragments in a row
RawTexts == UNION {{Concat(parts) : parts \in [1..n -> Fragments]} : n \in 0..MaxFragments}

RawResponses == {TextResponse(t) : t \in RawTexts} \cup {NoneResponse}

InitExtract ==
    /\ AppStart
    /\ BatchIdle
    /\ resolved = NoResolution
    /\ pipe = NoPipeline
    /\ extraction \in {[response |-> r, label |-> "none"] : r \in RawResponses}

\* gemini_classify applied to the response
Extract ==
    /\ extraction.label = "none"
    /\ extraction' = [extraction EXCEPT !.label = gemini_classify(extraction.response)]
    /\ UNCHANGED <<appVars, norm, kmeans, resolved, pipe>>

NextExtract == Extract

SpecExtract == InitExtract /\ [][NextExtract]_vars

----------------------------------------------------------------------------
(* run_pipeline *)

\* Data/sample_emails.json: thread k carries k - 1 messages
InputThreads ==
    [k \in 1..MaxThreads |->
        [thread_id |-> k, sender |-> k, messages |-> [j \in 1..(k - 1) |-> "message"]]]

\* "\n---\n".join(msgs)
RECURSIVE extract_thread_text(_)
extract_thread_text(msgs) ==
    IF msgs = <<>> THEN <<>>
    ELSE IF Len(msgs) = 1 THEN msgs
    ELSE <<Head(msgs), "\n---\n">> \o extract_thread_text(Tail(msgs))

\* seconds before model.generate_content returns
Latencies == 0..MaxLatency

\* what the remote model answers in the pipeline runs
RemoteOutcomes ==
    { TextResponse(Chars("Confirmation")), TextResponse(lower(Chars("Objection")) \o <<".">>),
      TextResponse(<<" ">> \o Chars("Escalation") \o <<"\n">>),
      TextResponse(Chars("New Information")), TextResponse(<<"n", "o", "n", "e">>),
      NoneResponse, RaisedResponse }

InitPipeline ==
    /\ AppStart
    /\ BatchIdle
    /\ resolved = NoResolution
    /\ extraction = NoExtraction
    /\ pipe = [pc |-> "classify",
               email_text |-> [k \in DOMAIN InputThreads |->
                                  extract_thread_text(InputThreads[k].messages)],
               labels |-> <<>>, errored |-> {}, predictions |-> <<>>,
               now |-> 0, calls |-> <<>>]

\* model.generate_content(prompt) for thread k, begun at `start`, back at `end`
RemoteCall(k, start, end) == [thread |-> k, start |-> start, end |-> end]

\* a classifier that goes on as soon as the remote call is back
NoSleep(t) == t

\* time.sleep(15) after the remote call
SleepAfterCall(t) == t + QUOTA_DELAY

\* one turn of the loop of lines 82-84: gemini_classify(text), the label appended;
\* an exception of the remote call leaves gemini_classify and run_pipeline
ClassifyThread ==
    /\ pipe.pc = "classify"
    /\ Len(pipe.labels) < Len(pipe.email_text)
    /\ \E response \in RemoteOutcomes, latency \in Latencies :
          LET k == Len(pipe.labels) + 1
              back == pipe.now + latency
              called == Append(pipe.calls, RemoteCall(k, pipe.now, back))
          IN pipe' = IF response.kind = "raise"
                     THEN [pipe EXCEPT !.pc = "crashed", !.errored = @ \cup {k},
                                       !.now = back, !.calls = called]
                     ELSE [pipe EXCEPT !.labels = Append(@, gemini_classify(response)),
                                       !.now = SleepAfterCall(back), !.calls = called]
    /\ UNCHANGED <<appVars, norm, kmeans, resolved, extraction>>

\* lines 85-90: the labels and their actions, written to predictions.json
WritePredictions ==
    /\ pipe.pc = "classify"
    /\ Len(pipe.labels) = Len(pipe.email_text)
    /\ pipe' = [pipe EXCEPT
                  !.pc = "done",
                  !.predictions =
                      [k \in DOMAIN InputThreads |->
                          [thread_id |-> InputThreads[k].thread_id,
                           sender |-> InputThreads[k].sender,
                           email_text |-> pipe.email_text[k],
                           predicted_behavior |-> pipe.labels[k],
                           suggested_action |->
                               SeriesMap(BEHAVIOR_TO_ACTION, pipe.labels[k])]]]
    /\ UNCHANGED <<appVars, norm, kmeans, resolved, extraction>>

NextPipeline ==
    \/ ClassifyThread
    \/ WritePredictions

SpecPipeline == InitPipeline /\ [][NextPipeline]_vars

----------------------------------------------------------------------------
(* ai_model.py: clusters to behaviors to actions *)

n_clusters == 4

cluster_to_behavior ==
    [c \in 0..(n_clusters - 1) |->
        CASE c = 0 -> "Confirmation"
          [] c = 1 -> "Objection"
          [] c = 2 -> "Escalation"
          [] OTHER -> "New Information"]

behavior_to_action ==
    [b \in {"Confirmation", "Objection", "Escalation", "New Information"} |->
        CASE b = "Confirmation" -> "Close Ticket"
          [] b = "Objection" -> "Request Clarification"
          [] b = "Escalation" -> "Forward to Manager"
          [] OTHER -> "Update Records"]

----------------------------------------------------------------------------
(* ai_model.py: clean_text, character by character *)

\* the grave accent, which no string of this notation can hold
GraveAccent == "grave"

\* string.punctuation
Punctuation ==
    {"!", "\"", "#", "$", "%", "&", "'", "(", ")", "*", "+", ",", "-", ".", "/", ":",
     ";", "<", "=", ">", "?", "@", "[", "\\", "]", "^", "_", GraveAccent, "{", "|", "}", "~"}

\* the alternatives of the first re.sub of clean_text, in the order of the pattern
Boilerplate ==
    << <<"f", "r", "o", "m", ":">>,
       <<"t", "o", ":">>,
       <<"c", "c", ":">>,
       <<"t", "h", "a", "n", "k", "s">>,
       <<"r", "e", "g", "a", "r", "d", "s">>,
       <<"s", "i", "n", "c", "e", "r", "e", "l", "y">>,
       <<"d", "e", "a", "r">>,
       <<"b", "e", "s", "t">> >>

\* `word` stands in `text` at its first character
StartsWith(text, word) ==
    /\ Len(word) <= Len(text)
    /\ \A j \in DOMAIN word : text[j] = word[j]

\* the text after its first n characters
Drop(text, n) == SubSeq(text, n + 1, Len(text))

\* the length of the longest run of characters of `class` the text begins with
RECURSIVE RunLength(_, _)
RunLength(text, class) ==
    IF text # <<>> /\ Head(text) \in class THEN 1 + RunLength(Tail(text), class) ELSE 0

\* the length of the longest run of \S the text begins with
RECURSIVE NonSpaceRun(_)
NonSpaceRun(text) ==
    IF text # <<>> /\ Head(text) \notin Whitespace THEN 1 + NonSpaceRun(Tail(text)) ELSE 0

\* re.sub(r"(from:|to:|cc:|thanks|regards|sincerely|dear|best)", " ", text)
RECURSIVE sub_boilerplate(_)
sub_boilerplate(text) ==
    IF text = <<>> THEN <<>>
    ELSE LET hits == {k \in DOMAIN Boilerplate : StartsWith(text, Boilerplate[k])}
         IN IF hits = {} THEN <<Head(text)>> \o sub_boilerplate(Tail(text))
            ELSE LET first == CHOOSE k \in hits : \A h \in hits : k <= h
                 IN <<" ">> \o sub_boilerplate(Drop(text, Len(Boilerplate[first])))

\* the length of the match of http\S+|www\S+ at the start of the text, 0 for none
UrlMatch(text) ==
    IF StartsWith(text, <<"h", "t", "t", "p">>) /\ NonSpaceRun(Drop(text, 4)) > 0
    THEN 4 + NonSpaceRun(Drop(text, 4))
    ELSE IF StartsWith(text, <<"w", "w", "w">>) /\ NonSpaceRun(Drop(text, 3)) > 0
    THEN 3 + NonSpaceRun(Drop(text, 3))
    ELSE 0

\* re.sub(r"http\S+|www\S+", " ", text)
RECURSIVE sub_urls(_)
sub_urls(text) ==
    IF text = <<>> THEN <<>>
    ELSE IF UrlMatch(text) > 0 THEN <<" ">> \o sub_urls(Drop(text, UrlMatch(text)))
    ELSE <<Head(text)>> \o sub_urls(Tail(text))

\* re.sub(r"\d+", " ", text) and re.sub(r"\s+", " ", text): every longest run
\* of characters of `class` becomes one space
RECURSIVE sub_runs(_, _)
sub_runs(text, class) ==
    IF text = <<>> THEN <<>>
    ELSE IF Head(text) \in class
    THEN <<" ">> \o sub_runs(Drop(text, RunLength(text, class)), class)
    ELSE <<Head(text)>> \o sub_runs(Tail(text), class)

\* text.translate(str.maketrans("", "", string.punctuation))
remove_punctuation(text) == SelectSeq(text, LAMBDA c : c \notin Punctuation)

\* lines 22-33
clean_text(text) ==
    strip(sub_runs(remove_punctuation(
                       sub_runs(sub_urls(sub_boilerplate(lower(text))), Digits)),
                   Whitespace))

----------------------------------------------------------------------------
(* clean_text on bounded texts *)

CleanFragments ==
    { <<"b", "e">>, <<"s", "t">>, <<"D", "e", "a", "r">>, <<"h", "t", "t", "p">>,
      <<"w", "w", "w">>, <<"x">>, <<" ">>, <<"\n">>,
      <<".">>, <<":">>, <<"7">>, <<"t", "o">> }

\* the texts: up to MaxFragments fragments in a row
CleanInputs ==
    UNION {{Concat(parts) : parts \in [1..n -> CleanFragments]} : n \in 0..MaxFragments}

InitClean ==
    /\ AppStart
    /\ resolved = NoResolution
    /\ extraction = NoExtraction
    /\ pipe = NoPipeline
    /\ kmeans = NoClustering
    /\ norm \in {[text |-> x, passes |-> <<>>] : x \in CleanInputs}

\* clean_text applied to the text, then to its own result
Normalise ==
    /\ Len(norm.passes) < 2
    /\ norm' = [norm EXCEPT !.passes =
                   Append(@, clean_text(IF @ = <<>> THEN norm.text ELSE @[Len(@)]))]
    /\ UNCHANGED <<appVars, resolved, extraction, pipe, kmeans>>

NextClean == Normalise

SpecClean == InitClean /\ [][NextClean]_vars

----------------------------------------------------------------------------
(* The script ai_model.py over a bounded corpus *)

\* the messages of a thread of Data/sample_emails.json
MessageLists ==
    { <<>>,
      << <<"P", "l", "e", "a", "s", "e", " ", "c", "o", "n", "f", "i", "r", "m", ".">> >>,
      << <<"D", "e", "a", "r", " ", "A", "n", "n">>,
         <<"R", "e", "f", "u", "n", "d", " ", "n", "o", "w", "!", " ", "h", "t", "t", "p", ":", "/", "/", "x", ".", "i", "o", " ", "7">> >> }

\* the corpora: more threads than clusters, not all of them empty
Corpora ==
    {c \in [1..(MaxThreads + 1) -> MessageLists] : \E k \in DOMAIN c : c[k] # <<>>}

\* line 18: the last message of the thread, "" for a thread without messages
last_message(msgs) == IF msgs # <<>> THEN msgs[Len(msgs)] ELSE <<>>

\* kmeans.fit_predict(X): a cluster for every document, the same for equal documents
ClusterAssignments(docs) ==
    {[k \in DOMAIN docs |-> f[docs[k]]] : f \in [Range(docs) -> DOMAIN cluster_to_behavior]}

InitCluster ==
    /\ AppStart
    /\ resolved = NoResolution
    /\ extraction = NoExtraction
    /\ pipe = NoPipeline
    /\ norm = NoNormalisation
    /\ kmeans \in {[NoClustering EXCEPT !.pc = "loaded", !.threads = c] : c \in Corpora}

\* lines 18-36: the columns email_text and clean_text
CleanCorpus ==
    /\ kmeans.pc = "loaded"
    /\ kmeans' = [kmeans EXCEPT
                    !.pc = "cleaned",
                    !.email_text = [k \in DOMAIN kmeans.threads |->
                                       last_message(kmeans.threads[k])],
                    !.clean_text = [k \in DOMAIN kmeans.threads |->
                                       clean_text(last_message(kmeans.threads[k]))]]
    /\ UNCHANGED <<appVars, resolved, extraction, pipe, norm>>

\* lines 40-46: TF-IDF and KMeans with n_clusters = 4
FitPredict ==
    /\ kmeans.pc = "cleaned"
    /\ Len(kmeans.clean_text) >= n_clusters
    /\ \E cluster \in ClusterAssignments(kmeans.clean_text) :
          kmeans' = [kmeans EXCEPT !.pc = "clustered", !.cluster = cluster]
    /\ UNCHANGED <<appVars, resolved, extraction, pipe, norm>>

\* lines 64-65: the two Series.map
MapClusters ==
    /\ kmeans.pc = "clustered"
    /\ kmeans' = [kmeans EXCEPT
                    !.pc = "done",
                    !.predictions =
                        [k \in DOMAIN kmeans.threads |->
                            LET behavior == SeriesMap(cluster_to_behavior, kmeans.cluster[k])
                            IN [thread_id |-> k,
                                predicted_behavior |-> behavior,
                                suggested_action |->
                                    SeriesMap(behavior_to_action, behavior)]]]
    /\ UNCHANGED <<appVars, resolved, extraction, pipe, norm>>

NextCluster ==
    \/ CleanCorpus
    \/ FitPredict
    \/ MapClusters

SpecCluster == InitCluster /\ [][NextCluster]_vars

----------------------------------------------------------------------------
(* Resolution of the suggested action, wherever the repository does it *)

\* the behavior labels the resolvers are given
Labels == Range(CATEGORIES) \cup DOMAIN default_rules

\* the rule tables rules.json is taken through
RuleTables ==
    {default_rules} \cup
    UNION {[K -> RuleInputs] : K \in SUBSET {"Confirmation", "Escalation", "Unknown"}}

Resolution(site, label, table, action) ==
    [site |-> site, label |-> label, table |-> table, action |-> action]

InitResolve ==
    /\ AppStart
    /\ BatchIdle
    /\ resolved = NoResolution
    /\ extraction = NoExtraction
    /\ pipe = NoPipeline

\* app.py lines 282 and 303: rules.get(p["predicted_behavior"], "Review Manually")
ResolveInbox ==
    /\ \E rules \in RuleTables, label \in Labels :
          resolved' = Resolution("inbox", label, rules,
                                 Thread([id |-> "m", thread_id |-> "T", from |-> "a",
                                         predicted_behavior |-> label], rules).suggested_action)
    /\ UNCHANGED <<appVars, norm, kmeans, extraction, pipe>>

\* analyze_predictions.py predict_new
ResolvePredictNew ==
    /\ \E pred_behavior \in Labels :
          resolved' = Resolution("predict_new", pred_behavior, BEHAVIOR_TO_ACTION,
                                 DictGet(BEHAVIOR_TO_ACTION, pred_behavior, REVIEW_MANUALLY))
    /\ UNCHANGED <<appVars, norm, kmeans, extraction, pipe>>

\* gemini_classifier.py line 86, on the labels gemini_classify returns
ResolvePipeline ==
    /\ \E response \in RemoteOutcomes \ {RaisedResponse} :
          resolved' = Resolution("run_pipeline", gemini_classify(response), BEHAVIOR_TO_ACTION,
                                 SeriesMap(BEHAVIOR_TO_ACTION, gemini_classify(response)))
    /\ UNCHANGED <<appVars, norm, kmeans, extraction, pipe>>

\* ai_model.py lines 64-65, on the clusters KMeans assigns
ResolveClusters ==
    /\ \E cluster \in 0..(n_clusters - 1) :
          resolved' = Resolution("ai_model", SeriesMap(cluster_to_behavior, cluster),
                                 behavior_to_action,
                                 SeriesMap(behavior_to_action,
                                           SeriesMap(cluster_to_behavior, cluster)))
    /\ UNCHANGED <<appVars, norm, kmeans, extraction, pipe>>

NextResolve ==
    \/ ResolveInbox
    \/ ResolvePredictNew
    \/ ResolvePipeline
    \/ ResolveClusters

SpecResolve == InitResolve /\ [][NextResolve]_vars

----------------------------------------------------------------------------
(* Claims on the review session *)

WriteFailures == {"open_failed", "torn"}

IsPrefix(a, b) == Len(a) <= Len(b) /\ SubSeq(b, 1, Len(a)) = a

\* a step that is a decision click of session s
DecisionStep(s) == clock' = clock + 1 /\ writeResult'[s] # "none"

\* C1: every ledger entry is Overridden iff its final_action differs from its
\* ai_suggestion, and Approved iff they are equal.
C1_StatusIffActionDiffers ==
    \A i \in DOMAIN ledgerFile.data :
        LET e == ledgerFile.data[i]
        IN /\ (e.decision_status = "Overridden") <=> (e.final_action # e.ai_suggestion)
           /\ (e.decision_status = "Approved") <=> (e.final_action = e.ai_suggestion)

\* the half of C1 the code keeps: an Approved entry has final_action = ai_suggestion
ApprovedMeansEqual ==
    \A i \in DOMAIN ledgerFile.data :
        LET e == ledgerFile.data[i]
        IN e.decision_status = "Approved" => e.final_action = e.ai_suggestion

\* the entries a reader gets out of the ledger file
Loadable(file) == IF file.torn THEN <<>> ELSE file.data

\* C2: within one session the ledger before a decision click is a prefix of
\* the ledger after it: every entry written before is still there, unchanged
\* and in creation order, and the click has added no more than its one entry.
C2_LedgerBeforeIsPrefixOfAfter ==
    [][DecisionStep(Reviewer) =>
          /\ IsPrefix(Loadable(ledgerFile), Loadable(ledgerFile'))
          /\ Len(Loadable(ledgerFile')) <= Len(Loadable(ledgerFile)) + 1]_vars

\* what the code keeps of C2: a decision whose write succeeds appends exactly
\* its entry, and no other run touches the ledger
AppendOnlyWhenWritten ==
    [][/\ (DecisionStep(Reviewer) /\ writeResult'[Reviewer] = "ok") =>
              /\ ~ledgerFile'.torn
              /\ IsPrefix(ledgerFile.data, ledgerFile'.data)
              /\ Len(ledgerFile'.data) = Len(ledgerFile.data) + 1
       /\ ~DecisionStep(Reviewer) => ledgerFile' = ledgerFile]_vars

\* C3: on a non-empty ledger both screens show (total - overridden) / total as
\* a percentage to one decimal (one Approved and one Overridden: 50.0%); on
\* an empty ledger every screen that shows an accuracy shows the same "N/A".
C3_AccuracyMetric ==
    load_data_ok =>
        LET entries == ledgerFile.data
            n == Len(entries)
            o == Overridden(entries)
        IN /\ n > 0 =>
                \A tab \in {"Dashboard", "Analytics"} :
                    LET a == AccuracyOn(tab, entries)
                    IN /\ a.kind = "percent"
                       /\ 2 * Abs(a.tenths * n - 1000 * (n - o)) <= n
                       /\ (n = 2 /\ o = 1) => a.tenths = 500
           /\ n = 0 =>
                {AccuracyOn(tab, entries) : tab \in Tabs} \ {NotShown} = {NA}

C3_Witness ==
    /\ load_data_ok
    /\ Len(ledgerFile.data) = 2
    /\ Overridden(ledgerFile.data) = 1
    /\ active_tab[Reviewer] = "Analytics"
    /\ ShownAccuracy(Reviewer) = Percent(500)

\* C5: a decision click whose ledger write fails ends in an exception, issues
\* no mailbox call, creates or clears no draft, and leaves no readable ledger
\* holding the entry.
C5_FailedWriteIsSignalledAndNotActedOn ==
    [][(DecisionStep(Reviewer) /\ writeResult'[Reviewer] \in WriteFailures) =>
          /\ raised'[Reviewer] = "OSError"
          /\ gmailCalls' = {}
          /\ drafted_reply' = drafted_reply
          /\ (ledgerFile'.torn \/ ledgerFile' = ledgerFile)]_vars

C5_Witness ==
    /\ writeResult[Reviewer] \in WriteFailures
    /\ raised[Reviewer] = "OSError"
    /\ drafted_reply[Reviewer] # NoDraft
    /\ gmailCalls = {}

\* C6: a decision click whose ledger write fails leaves the persisted ledger
\* as it was: the same entries, still loadable.
C6_FailedWriteKeepsLedger ==
    [][(DecisionStep(Reviewer) /\ writeResult'[Reviewer] \in WriteFailures) =>
          ledgerFile' = ledgerFile]_vars

\* the status the ledger gives a thread: that of its most recent entry
StatusProjection(thread_id, entries) ==
    LET mine == {i \in DOMAIN entries : entries[i].thread_id = thread_id}
    IN IF mine = {} THEN "Pending"
       ELSE entries[CHOOSE i \in mine : \A j \in mine : j <= i].decision_status

\* C12: the decision status the inbox shows for a thread is "Pending" when
\* the ledger has no entry for its thread_id, and otherwise the
\* decision_status of the most recent entry for that thread_id.
C12_InboxStatusIsLedgerProjection ==
    (load_data_ok /\ active_tab[Reviewer] = "Inbox") =>
        \A i \in DOMAIN InboxTable(Reviewer) :
            InboxTable(Reviewer)[i].decision_status =
                StatusProjection(InboxTable(Reviewer)[i].thread_id, ledgerFile.data)

\* the e-mail of the session's inbox a ledger entry was decided on
DecidedEmail(s, entry) ==
    CHOOSE p \in Range(emails[s]) : p.thread_id = entry.thread_id

C14_FetchedEmailsKeptWithoutModel ==
    ~modelFile =>
        /\ raised[Reviewer] = "none"
        /\ \A c \in gmailCalls :
              c.op = "get" =>
                  \E p \in Range(emails[Reviewer]) :
                      p.id = c.id /\ p.predicted_behavior # ""

\* the draft of session s is gone, or is the one the decision just logged made
EarlierDraftDiscarded(s) ==
    LET e == ledgerFile'.data[Len(ledgerFile'.data)]
    IN \/ drafted_reply'[s] = NoDraft
       \/ /\ e.final_action \in EmailActions
          /\ drafted_reply'[s] = ActionDraft(e.final_action, DecidedEmail(s, e))

\* what C17 says apart from the discarding of the earlier draft: a decision
\* sends nothing and drafts only once its entry is written and only for an
\* e-mail action; a send comes from a Send Reply click on the draft of a
\* thread of the inbox, goes to the draft's recipient, and clears the draft
DraftThenSend(s) ==
    /\ DecisionStep(s) =>
          /\ \A c \in gmailCalls' : c.op # "send"
          /\ drafted_reply'[s] \notin {NoDraft, drafted_reply[s]} =>
                /\ writeResult'[s] = "ok"
                /\ ~ledgerFile'.torn
                /\ EarlierDraftDiscarded(s)
    /\ \A c \in gmailCalls' :
          c.op = "send" =>
              /\ ~DecisionStep(s)
              /\ drafted_reply[s] # NoDraft
              /\ c.id = drafted_reply[s].original_email_id
              /\ c.to = drafted_reply[s].recipient
              /\ \E p \in Range(emails[s]) : p.id = c.id
              /\ drafted_reply'[s] = NoDraft

\* C17 as stated: no reply is sent by Approve or Save Override; an e-mail
\* action only creates a draft once its ledger entry is written; a reply is
\* sent only by Send Reply on the draft of the selected thread; every decision
\* that is made discards the earlier draft; the draft is cleared once sent.
C17_EveryDecisionDiscardsDraft ==
    [][/\ DraftThenSend(Reviewer)
       /\ (DecisionStep(Reviewer) /\ writeResult'[Reviewer] = "ok") =>
              EarlierDraftDiscarded(Reviewer)]_vars

\* C17, amended: the same, with the earlier draft discarded by every decision
\* that is made with a non-empty action; a decision whose action is the empty
\* string leaves the earlier draft in place.
C17_NonEmptyDecisionDiscardsDraft ==
    [][/\ DraftThenSend(Reviewer)
       /\ (DecisionStep(Reviewer) /\ writeResult'[Reviewer] = "ok") =>
              LET e == ledgerFile'.data[Len(ledgerFile'.data)]
              IN IF e.final_action = ""
                 THEN drafted_reply' = drafted_reply
                 ELSE EarlierDraftDiscarded(Reviewer)]_vars

\* a reply has just been sent for a logged e-mail action, and the draft is gone
C17_Witness ==
    /\ \E c \in gmailCalls : c.op = "send"
    /\ drafted_reply[Reviewer] = NoDraft
    /\ \E i \in DOMAIN ledgerFile.data : ledgerFile.data[i].final_action \in EmailActions

----------------------------------------------------------------------------
(* Claims on concurrent sessions *)

\* C7: no session ever fails to load the ledger because it read it while
\* another session's append was in progress.
C7_ReaderNeverSeesPartialLedger ==
    \A s \in Sessions : raised[s] # "JSONDecodeError"

\* C8: once every run has ended, the persisted ledger holds the entry of the
\* latest decision each session recorded.
C8_NoDecisionLost ==
    (\A s \in Sessions : pc[s] = "idle") =>
        \A s \in Sessions :
            pend[s] # <<>> =>
                \E i \in DOMAIN ledgerFile.data : ledgerFile.data[i] = pend[s][1].entry

----------------------------------------------------------------------------
(* Claims on resolution, the pipeline and label extraction *)

\* C4: every suggested action resolved, in the inbox, by predict_new and in the
\* batch pipelines, is table[label] when the label is a key of the table and
\* "Review Manually" otherwise, and is never a missing value.
C4_ResolveWithFallback ==
    resolved # NoResolution =>
        /\ resolved.action =
              (IF resolved.label \in DOMAIN resolved.table
               THEN resolved.table[resolved.label]
               ELSE "Review Manually")
        /\ resolved.action \notin {NaN, "None"}

C4_Witness ==
    /\ resolved.site = "inbox"
    /\ resolved.label = "Escalation"
    /\ resolved.label \notin DOMAIN resolved.table
    /\ resolved.action = "Review Manually"

\* C9: a remote call that errors does not abort the batch: the run never dies,
\* and the predictions written hold one prediction per input thread, with
\* "Unknown" for each thread whose call errored.
C9_RemoteErrorIsIsolated ==
    /\ pipe.pc # "crashed"
    /\ pipe.pc = "done" =>
          /\ Len(pipe.predictions) = Len(InputThreads)
          /\ \A t \in pipe.errored : pipe.predictions[t].predicted_behavior = "Unknown"

\* C16: the remote model is called for one thread at a time, in input order:
\* the i-th call is for the i-th thread and is back before the next begins;
\* and the next call begins no sooner than the fixed delay after it is back.
C16_CallsInOrderAndSpaced ==
    /\ \A i \in DOMAIN pipe.calls :
          /\ pipe.calls[i].thread = i
          /\ pipe.calls[i].start <= pipe.calls[i].end
    /\ \A i \in DOMAIN pipe.calls \ {1} :
          pipe.calls[i].start >= pipe.calls[i - 1].end + QUOTA_DELAY
    /\ Len(pipe.calls) <= Len(InputThreads)

\* every thread has been sent to the remote model, some calls taking time
C16_Witness ==
    /\ pipe.pc = "done"
    /\ Len(pipe.calls) = Len(InputThreads)
    /\ Len(pipe.calls) > 1
    /\ \E i \in DOMAIN pipe.calls : pipe.calls[i].end > pipe.calls[i].start

\* C11: under every labeling strategy a thread whose messages list is empty
\* gets an empty email_text and the prediction "Unknown" with the suggested
\* action "Review Manually"; here for the strategy of ai_model.py.
C11_EmptyThreadIsUnknown ==
    kmeans.pc = "done" =>
        \A k \in DOMAIN kmeans.threads :
            kmeans.threads[k] = <<>> =>
                /\ kmeans.email_text[k] = <<>>
                /\ kmeans.clean_text[k] = <<>>
                /\ kmeans.predictions[k].predicted_behavior = "Unknown"
                /\ kmeans.predictions[k].suggested_action = REVIEW_MANUALLY

\* C15: clean_text is idempotent: applied to its own result it returns it.
C15_CleanTextIdempotent ==
    Len(norm.passes) = 2 => norm.passes[2] = norm.passes[1]

\* the text holds `word` as a whole word, in any case
ContainsWord(text, word) ==
    \E i \in 1..(Len(text) - Len(word) + 1) :
        /\ \A j \in 1..Len(word) : LowerChar(text[i + j - 1]) = LowerChar(word[j])
        /\ i = 1 \/ ~IsWordChar(text[i - 1])
        /\ i + Len(word) - 1 = Len(text) \/ ~IsWordChar(text[i + Len(word)])

ContainsNoCategory(text) ==
    \A c \in DOMAIN CATEGORIES : ~ContainsWord(text, Chars(CATEGORIES[c]))

\* C10 as claimed: a response that holds the word Escalation is labelled
\* Escalation, and one that holds no category name is labelled Unknown.
C10_EscalationWordGivesEscalation ==
    extraction.label # "none" =>
        /\ ContainsWord(extraction.response.text, Chars("Escalation")) =>
              extraction.label = "Escalation"
        /\ ContainsNoCategory(extraction.response.text) => extraction.label = "Unknown"

\* C10 amended: a response that holds the word Escalation and neither
\* Confirmation nor Objection as a whole word is labelled Escalation, and one
\* that holds no category name is labelled Unknown.
C10_EscalationUnlessEarlierCategory ==
    extraction.label # "none" =>
        /\ (/\ ContainsWord(extraction.response.text, Chars("Escalation"))
            /\ ~ContainsWord(extraction.response.text, Chars("Confirmation"))
            /\ ~ContainsWord(extraction.response.text, Chars("Objection"))) =>
              extraction.label = "Escalation"
        /\ ContainsNoCategory(extraction.response.text) => extraction.label = "Unknown"

C10_Witness ==
    /\ extraction.label = "Escalation"
    /\ ContainsWord(extraction.response.text, Chars("Unknown"))
    /\ ContainsWord(extraction.response.text, Chars("Escalation"))

====
